---------------------------- MODULE Spec2Model ----------------------------
(***************************************************************************)
(* Model of the dataset materializer and the training driver of            *)
(* train_steering_model.py, with the constructor of                        *)
(* steering_neural_network.py.                                             *)
(*                                                                         *)
(* A mapping (local_path, label) is the pair <<row, Label(row)>>, row      *)
(* being the number of the CSV data row it was built from.  A split ratio  *)
(* is an integer number of millionths, so that the 5-decimal rounding of   *)
(* the assertion of split_data_set can be computed.                        *)
(*                                                                         *)
(* Five specifications share the module:                                   *)
(*   SpecSplit  calls of split_data_set on in-memory lists                  *)
(*   SpecGen    a for-loop over data_map_generator                          *)
(*   SpecSave   save_as_h5_data, one step per batch                         *)
(*   SpecRead   calls of read_data (and split_data_set) on one directory    *)
(*   SpecTrain  train_model over a list of directories                      *)
(***************************************************************************)
EXTENDS Integers, Sequences, FiniteSets, TLC

VARIABLES
    build,   \* the interpreter and library versions the code runs on
    sp,      \* SpecSplit: the call of split_data_set and its result
    fl,      \* SpecGen: the consumer's for-loop over the generator
    sv,      \* SpecSave: the frame of save_as_h5_data
    dirs,    \* the data directories: CSV rows, image files, container files
    call,    \* SpecRead: the latest call and what it did
    tm       \* SpecTrain: the frame of train_model

vars == <<build, sp, fl, sv, dirs, call, tm>>

----------------------------------------------------------------------------
\* Bounds of the model.

\* longest list handed to split_data_set in SpecSplit
MaxLen == 4
\* longest list and largest chunk size of the for-loop in SpecGen
MaxGenLen == 7
MaxChunk == 4
\* longest list handed to save_as_h5_data in SpecSave
MaxMaps == 205
\* most CSV data rows of a directory in SpecRead and SpecTrain
MaxRows == 3
\* longest list of directories handed to train_model
MaxDirs == 2

----------------------------------------------------------------------------
\* Values.

None == "None"
\* what a call that raised returns
NoRet == <<>>

Abs(x) == IF x < 0 THEN -x ELSE x
Min(a, b) == IF a < b THEN a ELSE b
Max(a, b) == IF a < b THEN b ELSE a
Sgn(x) == IF x < 0 THEN -1 ELSE IF x > 0 THEN 1 ELSE 0

RECURSIVE SumSeq(_)
SumSeq(s) == IF s = <<>> THEN 0 ELSE Head(s) + SumSeq(Tail(s))

RECURSIVE Flatten(_)
Flatten(ss) == IF ss = <<>> THEN <<>> ELSE Head(ss) \o Flatten(Tail(ss))

Range(s) == {s[i] : i \in DOMAIN s}

\* the element of a one-element set; TheOne({e(x) : x \in {v}}) is e(v) with
\* v evaluated once
TheOne(S) == CHOOSE x \in S : TRUE

\* s is a rearrangement of t: same length, same elements, none repeated
\* (the rows of a mapping list are distinct)
IsPermutationOf(s, t) ==
    /\ Len(s) = Len(t)
    /\ Range(s) = Range(t)
    /\ Cardinality(Range(s)) = Len(s)

\* The interpreters and libraries the code may run on.  pep479: a
\* StopIteration raised inside a generator body becomes a RuntimeError
\* (Python 3.7 and later) instead of ending the generator.  raggedRaises:
\* numpy.array of a list mixing image arrays of different shapes, or arrays
\* and None, raises instead of building a 1-D object array.
Builds == [pep479 : BOOLEAN, raggedRaises : BOOLEAN]
OneBuild == [pep479 |-> FALSE, raggedRaises |-> FALSE]

\* the steering label of a CSV row (line[3]), a small stand-in domain
Label(row) == (row % 3) - 1

\* the mapping list create_data_maps builds from n rows, before any shuffle
Mappings(n) == [i \in 1..n |-> <<i, Label(i)>>]

\* every order random.shuffle / np.random.shuffle can leave a list in
Shuffles(s) ==
    {[i \in 1..Len(s) |-> s[p[i]]] : p \in Permutations(1..Len(s))}

\* Python's s[a:b] on a list, negative and out-of-range indices included
SliceIndex(i, n) == IF i < 0 THEN Max(i + n, 0) ELSE Min(i, n)
Slice(s, a, b) ==
    LET lo == SliceIndex(a, Len(s))
        hi == SliceIndex(b, Len(s))
    IN  IF hi <= lo THEN <<>> ELSE SubSeq(s, lo + 1, hi)
SliceFrom(s, a) == Slice(s, a, Len(s))

----------------------------------------------------------------------------
\* split_data_set

\* ratios are counted in millionths
RatioDen == 10 ^ 6

\* round(sum(split_ratio), 5) == 1.0: the sum is nearer to 1.0 than to
\* 0.99999 or 1.00001 (the model's ratios never sum to an exact half-way
\* value)
RatioAssertHolds(split_ratio) ==
    Abs(SumSeq(split_ratio) - RatioDen) * 2 < 10

\* a ratio a binary float holds exactly (a multiple of 1/64)
ExactFloat(r) == (r * 64) % RatioDen = 0

\* int(num_samples * ratio): truncation toward zero of the float product.
\* The product of an inexact ratio that should be a whole number may land
\* just short of it (100 * 0.29 = 28.999999999999996), and then truncates
\* to one less in magnitude.
IntTimes(num_samples, ratio) ==
    LET p == num_samples * ratio
        q == Sgn(p) * (Abs(p) \div RatioDen)
    IN  IF p # 0 /\ Abs(p) % RatioDen = 0 /\ ~ExactFloat(ratio)
        THEN {q, q - Sgn(p)}
        ELSE {q}

val_split_unsummed(train_split, n1) == n1
\* line 45: val_split = train_split + int(num_samples * split_ratio[1])
val_split_of(train_split, n1) == train_split + n1

split_shuffle_first(data_maps, split_ratio, shuffled, n0, n1) ==
    LET train_split == n0
        val_split == val_split_of(train_split, n1)
    IN  IF ~RatioAssertHolds(split_ratio)
        THEN [raised |-> "AssertionError", data_maps |-> shuffled,
              train |-> <<>>, valid |-> <<>>, test |-> <<>>]
        ELSE [raised |-> None, data_maps |-> shuffled,
              train |-> Slice(shuffled, 0, train_split),
              valid |-> Slice(shuffled, train_split, val_split),
              test |-> SliceFrom(shuffled, val_split)]
\* split_data_set(data_maps, split_ratio), given the order the shuffle leaves
\* the list in and the two truncated products.  data_maps is the caller's
\* list after the call (np.random.shuffle works in place).
split_data_set(data_maps, split_ratio, shuffled, n0, n1) ==
    LET train_split == n0
        val_split == val_split_of(train_split, n1)
    IN  IF ~RatioAssertHolds(split_ratio)
        THEN [raised |-> "AssertionError", data_maps |-> data_maps,
              train |-> <<>>, valid |-> <<>>, test |-> <<>>]
        ELSE [raised |-> None, data_maps |-> shuffled,
              train |-> Slice(shuffled, 0, train_split),
              valid |-> Slice(shuffled, train_split, val_split),
              test |-> SliceFrom(shuffled, val_split)]

\* the ratios SpecSplit draws from: negative, zero, inexact, above one, and
\* one that is off by 3 millionths
SplitRatioValues ==
    {-500000, 0, 200000, 300000, 500000, 500003, 1000000}

IdleSp == [pc |-> "idle"]
IdleFl == [pc |-> "idle"]
IdleSv == [pc |-> "idle"]
IdleCall ==
    [op |-> None, split_ratio |-> None, outcome |-> None, ret |-> NoRet,
     csvReads |-> 0, imgReads |-> 0, wrote |-> {}, listKept |-> TRUE,
     prevOp |-> None, prevOutcome |-> None, prevRet |-> NoRet]
IdleTm == [pc |-> "idle"]

InitSplit ==
    /\ build = OneBuild
    /\ \E n \in 0..MaxLen : \E r0, r1, r2 \in SplitRatioValues :
          sp = [pc |-> "call", input |-> Mappings(n),
                split_ratio |-> <<r0, r1, r2>>]
    /\ fl = IdleFl /\ sv = IdleSv /\ dirs = <<>>
    /\ call = IdleCall /\ tm = IdleTm

\* every way a call of split_data_set(data_maps, split_ratio) can go
SplitOutcomes(data_maps, split_ratio) ==
    {split_data_set(data_maps, split_ratio, shuffled, n0, n1) :
        shuffled \in Shuffles(data_maps),
        n0 \in IntTimes(Len(data_maps), split_ratio[1]),
        n1 \in IntTimes(Len(data_maps), split_ratio[2])}

\* one call of split_data_set(sp.input, sp.split_ratio)
CallSplit ==
    /\ sp.pc = "call"
    /\ \E r \in SplitOutcomes(sp.input, sp.split_ratio) :
          sp' = [pc |-> "returned", input |-> sp.input,
                 split_ratio |-> sp.split_ratio, result |-> r]
    /\ UNCHANGED <<build, fl, sv, dirs, call, tm>>

NextSplit == CallSplit

SpecSplit == InitSplit /\ [][NextSplit]_vars


\* C1 as stated: for every list and every ratio triple that passes the
\* assertion, whatever the sign or size of the single ratios, the three
\* partitions returned have sizes summing to the length of the list and
\* their concatenation is a rearrangement of the list.
C1_PartitionAnyRatios ==
    (sp.pc = "returned" /\ sp.result.raised = None) =>
        LET r == sp.result
        IN  /\ Len(r.train) + Len(r.valid) + Len(r.test) = Len(sp.input)
            /\ IsPermutationOf(r.train \o r.valid \o r.test, sp.input)

\* C1 amended: the same, for the ratio triples that pass the assertion and
\* whose train and validation ratios are not negative.
C1_PartitionNonNegative ==
    (/\ sp.pc = "returned" /\ sp.result.raised = None
     /\ sp.split_ratio[1] >= 0 /\ sp.split_ratio[2] >= 0) =>
        LET r == sp.result
        IN  /\ Len(r.train) + Len(r.valid) + Len(r.test) = Len(sp.input)
            /\ IsPermutationOf(r.train \o r.valid \o r.test, sp.input)

\* a split of a shuffled list into three non-empty partitions
C1_Witness ==
    /\ sp.pc = "returned" /\ sp.result.raised = None
    /\ sp.split_ratio[1] > 0 /\ sp.split_ratio[2] > 0
    /\ sp.result.train # <<>> /\ sp.result.valid # <<>>
    /\ sp.result.test # <<>>
    /\ sp.result.data_maps # sp.input

----------------------------------------------------------------------------
\* data_map_generator

\* the generator object data_map_generator(data_map, chunk_size) returns:
\* nothing of its body has run yet
data_map_generator(data_map, chunk_size) ==
    [data_map |-> data_map, chunk_size |-> chunk_size,
     chunk_id |-> 0, state |-> "created"]

\* lines 56-58: the chunk the generator yields at chunk_id, unzipped
ChunkAt(gen, chunk_id) ==
    LET data_chunk ==
            Slice(gen.data_map, chunk_id, chunk_id + gen.chunk_size)
    IN  [image_paths |-> [i \in DOMAIN data_chunk |-> data_chunk[i][1]],
         labels |-> [i \in DOMAIN data_chunk |-> data_chunk[i][2]]]

GenYield(gen, chunk_id) ==
    [kind |-> "yield", value |-> ChunkAt(gen, chunk_id),
     gen |-> [gen EXCEPT !.chunk_id = chunk_id, !.state = "suspended"]]
GenStop(gen) ==
    [kind |-> "StopIteration", value |-> None,
     gen |-> [gen EXCEPT !.state = "finished"]]
GenError(gen) ==
    [kind |-> "RuntimeError", value |-> None,
     gen |-> [gen EXCEPT !.state = "finished"]]

\* line 60: raise StopIteration inside the generator body
RaiseInGenerator(gen, b) ==
    IF b.pep479 THEN GenError(gen) ELSE GenStop(gen)

\* next(gen): run the body to its next yield or to its end
GenNext(gen, b) ==
    IF gen.state = "created"
    THEN IF 0 < Len(gen.data_map) THEN GenYield(gen, 0) ELSE GenStop(gen)
    ELSE IF gen.state = "suspended"
    THEN IF gen.chunk_id + gen.chunk_size > Len(gen.data_map)
         THEN RaiseInGenerator(gen, b)
         ELSE IF gen.chunk_id + gen.chunk_size < Len(gen.data_map)
              THEN GenYield(gen, gen.chunk_id + gen.chunk_size)
              ELSE GenStop(gen)
    ELSE GenStop(gen)

InitGen ==
    /\ build \in Builds
    /\ \E n \in 0..MaxGenLen : \E c \in 1..MaxChunk :
          fl = [pc |-> "iterating", data_map |-> Mappings(n),
                gen |-> data_map_generator(Mappings(n), c),
                batches |-> <<>>]
    /\ sp = IdleSp /\ sv = IdleSv /\ dirs = <<>>
    /\ call = IdleCall /\ tm = IdleTm

\* one turn of `for image_paths_chunk, labels_chunk in gen:` in a consumer
\* that keeps the batches: the loop ends on StopIteration, and any other
\* exception leaves it
ForNext ==
    /\ fl.pc = "iterating"
    /\ LET r == GenNext(fl.gen, build)
       IN  fl' = [fl EXCEPT
                    !.gen = r.gen,
                    !.batches = IF r.kind = "yield"
                                THEN Append(@, r.value) ELSE @,
                    !.pc = IF r.kind = "yield" THEN "iterating"
                           ELSE IF r.kind = "StopIteration" THEN "finished"
                           ELSE r.kind]
    /\ UNCHANGED <<build, sp, sv, dirs, call, tm>>

NextGen == ForNext

SpecGen == InitGen /\ [][NextGen]_vars

CeilDiv(n, c) == (n + c - 1) \div c

\* C9 as stated: over a list of n >= 1 mappings the for-loop ends normally,
\* having received ceil(n / c) batches of at most c entries whose paths and
\* labels, concatenated, are those of the list in order.
C9_LoopEndsNormally ==
    (fl.pc # "idle" /\ fl.pc # "iterating" /\ Len(fl.data_map) >= 1) =>
        /\ fl.pc = "finished"
        /\ Len(fl.batches) = CeilDiv(Len(fl.data_map), fl.gen.chunk_size)
        /\ \A i \in DOMAIN fl.batches :
              Len(fl.batches[i].image_paths) <= fl.gen.chunk_size
        /\ Flatten([i \in DOMAIN fl.batches |-> fl.batches[i].image_paths])
              = [i \in DOMAIN fl.data_map |-> fl.data_map[i][1]]
        /\ Flatten([i \in DOMAIN fl.batches |-> fl.batches[i].labels])
              = [i \in DOMAIN fl.data_map |-> fl.data_map[i][2]]

----------------------------------------------------------------------------
\* Directories, image files and containers.

\* line 80
chunk_size == 100

FileNames == {"train", "valid", "test"}

\* an image file: readable with the shape of the others ("ok"), readable
\* with another shape ("odd"), or unreadable ("missing": cv2.imread gives
\* None)
ImageKinds == {"ok", "odd", "missing"}

BadSets(n) ==
    {{}, {1} \cap (1..n), {chunk_size + 1} \cap (1..n),
     (chunk_size + 1)..n, 1..n}
ImagePatterns(n) ==
    {[i \in 1..n |-> IF i \in B THEN k ELSE "ok"] :
        B \in BadSets(n), k \in {"odd", "missing"}}
AllOk(images) == \A i \in DOMAIN images : images[i] = "ok"

\* a container file that does not exist
NoFile ==
    [exists |-> FALSE, datasets |-> FALSE, shape |-> None,
     images |-> <<>>, labels |-> <<>>]

NoFiles == [f \in FileNames |-> NoFile]

\* a data directory: driving_log.csv with `rows` data rows, the image file of
\* each row, and the three container files
FreshDir(n, images) == [rows |-> n, images |-> images, fs |-> NoFiles]

\* the unwritten rows of a resized dataset read back as the fill value
Fill == 0
RECURSIVE Fills(_)
Fills(k) == IF k <= 0 THEN <<>> ELSE <<Fill>> \o Fills(k - 1)

\* h5py.File(path, 'w'): the file exists and holds no dataset
EmptyContainer ==
    [exists |-> TRUE, datasets |-> FALSE, shape |-> None,
     images |-> <<>>, labels |-> <<>>]

\* load_images(image_paths, resize_scale=None): every path is read, then
\* np.array(images) stacks what was read
load_images(image_paths, images, b) ==
    LET kinds == {images[image_paths[i]] : i \in DOMAIN image_paths}
        n == Len(image_paths)
    IN  IF kinds = {"ok"}
        THEN [kind |-> "array", shape |-> "A", n |-> n]
        ELSE IF kinds = {"odd"}
        THEN [kind |-> "array", shape |-> "B", n |-> n]
        ELSE IF kinds = {"missing"}
        THEN [kind |-> "object", shape |-> None, n |-> n]
        ELSE IF b.raggedRaises
        THEN [kind |-> "ValueError", shape |-> None, n |-> n]
        ELSE [kind |-> "object", shape |-> None, n |-> n]

----------------------------------------------------------------------------
\* save_as_h5_data

SaveRaise(s, exc) == [s EXCEPT !.pc = "raised", !.exc = exc]

\* lines 80-99: the generator, the first chunk, the file and its datasets.
\* `file` is what save_to_path holds before the call.
save_first_chunk(data_map, file, images, b) ==
    LET gen == data_map_generator(data_map, chunk_size)
        r == GenNext(gen, b)
        s0 == [pc |-> "loop", data_map |-> data_map, gen |-> r.gen,
               row_count |-> 0, exc |-> None, file |-> file,
               opened |-> FALSE, imgReads |-> 0]
    IN  IF r.kind # "yield"
        THEN SaveRaise(s0, r.kind)
        ELSE
          LET li == load_images(r.value.image_paths, images, b)
              s1 == [s0 EXCEPT !.imgReads = li.n]
          IN  IF li.kind = "ValueError"
              THEN SaveRaise(s1, "ValueError")
              ELSE IF li.kind = "object"
              THEN \* the file is created, then create_dataset refuses
                   \* the object dtype
                   SaveRaise([s1 EXCEPT !.file = EmptyContainer,
                                        !.opened = TRUE], "TypeError")
              ELSE [s1 EXCEPT
                      !.opened = TRUE,
                      !.row_count = li.n,
                      !.file = [exists |-> TRUE, datasets |-> TRUE,
                                shape |-> li.shape,
                                images |-> r.value.image_paths,
                                labels |-> r.value.labels]]

\* lines 101-113: one turn of the for-loop over the rest of the generator,
\* or its end (the with-block closes the file either way)
save_next_chunk(s, images, b) ==
    LET r == GenNext(s.gen, b)
        s0 == [s EXCEPT !.gen = r.gen]
    IN  IF r.kind = "StopIteration"
        THEN [s0 EXCEPT !.pc = "returned"]
        ELSE IF r.kind = "RuntimeError"
        THEN SaveRaise(s0, "RuntimeError")
        ELSE
          LET li == load_images(r.value.image_paths, images, b)
              s1 == [s0 EXCEPT !.imgReads = @ + li.n]
              resized == [s.file EXCEPT
                            !.images = @ \o Fills(li.n),
                            !.labels = @ \o Fills(Len(r.value.labels))]
          IN  IF li.kind = "ValueError"
              THEN SaveRaise(s1, "ValueError")
              ELSE IF li.kind = "array" /\ li.shape = s.file.shape
              THEN [s1 EXCEPT
                      !.file = [s.file EXCEPT
                                  !.images = @ \o r.value.image_paths,
                                  !.labels = @ \o r.value.labels],
                      !.row_count = @ + Len(r.value.labels)]
              ELSE \* both datasets are resized, then the write of the
                   \* images does not fit
                   SaveRaise([s1 EXCEPT !.file = resized], "TypeError")

RECURSIVE save_loop(_, _, _)
save_loop(s, images, b) ==
    IF s.pc # "loop" THEN s
    ELSE TheOne({save_loop(t, images, b) :
                    t \in {save_next_chunk(s, images, b)}})

\* save_as_h5_data(data_map, save_to_path) run to its end
save_as_h5_data(data_map, file, images, b) ==
    TheOne({save_loop(s, images, b) :
               s \in {save_first_chunk(data_map, file, images, b)}})

InitSave ==
    /\ build \in Builds
    /\ \E n \in 0..MaxMaps : \E images \in ImagePatterns(n) :
          /\ dirs = <<FreshDir(n, images)>>
          /\ sv = [pc |-> "call", data_map |-> Mappings(n)]
    /\ sp = IdleSp /\ fl = IdleFl /\ call = IdleCall /\ tm = IdleTm

\* save_as_h5_data(sv.data_map, train.h5 of the directory) up to the first
\* chunk
SaveFirstChunk ==
    /\ sv.pc = "call"
    /\ sv' = save_first_chunk(sv.data_map, dirs[1].fs["train"],
                              dirs[1].images, build)
    /\ dirs' = [dirs EXCEPT ![1].fs["train"] = sv'.file]
    /\ UNCHANGED <<build, sp, fl, call, tm>>

\* one more chunk, or the end of the loop
SaveNextChunk ==
    /\ sv.pc = "loop"
    /\ sv' = save_next_chunk(sv, dirs[1].images, build)
    /\ dirs' = [dirs EXCEPT ![1].fs["train"] = sv'.file]
    /\ UNCHANGED <<build, sp, fl, call, tm>>

NextSave == SaveFirstChunk \/ SaveNextChunk

SpecSave == InitSave /\ [][NextSave]_vars

\* C2 as stated: for a list of any length N (0 included) whose images are
\* all readable and alike, save_as_h5_data completes and leaves a container
\* whose images and labels both have length N; and after every batch append
\* the two have the same length.
C2_SaveCompletesWithN ==
    (sv.pc # "idle" /\ AllOk(dirs[1].images)) =>
        /\ sv.pc \in {"returned", "raised"} =>
              /\ sv.pc = "returned"
              /\ dirs[1].fs["train"].exists
              /\ dirs[1].fs["train"].datasets
              /\ Len(dirs[1].fs["train"].images) = Len(sv.data_map)
              /\ Len(dirs[1].fs["train"].labels) = Len(sv.data_map)
        /\ sv.pc = "loop" =>
              Len(dirs[1].fs["train"].images)
                  = Len(dirs[1].fs["train"].labels)

----------------------------------------------------------------------------
\* create_data_maps and read_data

\* create_data_maps(data_dir, "driving_log.csv", randomize): one mapping per
\* data row, in the order random.shuffle leaves them when randomize is set
create_data_maps(dir, randomize, shuffled) ==
    IF randomize THEN shuffled ELSE Mappings(dir.rows)

data_exists_initially_false(dir) == FALSE
\* lines 124-129: all three container files exist
data_exists(dir) == \A f \in FileNames : dir.fs[f].exists

\* lines 143-147: the three files opened for reading
OpenContainers(dir) == <<dir.fs["train"], dir.fs["valid"], dir.fs["test"]>>

\* lines 118-122, in the order lines 138-140 write them
ContainerOrder == <<"train", "valid", "test">>

\* lines 138-140: save_as_h5_data for the train, the validation and the test
\* partition in turn, from the k-th on; the first that raises ends the
\* call.  `saves` are the frames of the calls made so far.
RECURSIVE save_partitions(_, _, _, _, _)
save_partitions(dir, parts, k, saves, b) ==
    IF k > 3 \/ (saves # <<>> /\ saves[Len(saves)].pc = "raised")
    THEN [dir |-> dir, saves |-> saves]
    ELSE TheOne({save_partitions(
                     [dir EXCEPT !.fs[ContainerOrder[k]] = s.file],
                     parts, k + 1, Append(saves, s), b) :
                 s \in {save_as_h5_data(parts[k], dir.fs[ContainerOrder[k]],
                                        dir.images, b)}})

\* what a call that regenerates did and returns
ReadReport(sr, kept, done) ==
    LET saves == done.saves
        outcome == IF sr.raised # None THEN sr.raised
                   ELSE IF saves[Len(saves)].pc = "raised"
                   THEN saves[Len(saves)].exc
                   ELSE "returned"
    IN  [dir |-> done.dir, outcome |-> outcome,
         ret |-> IF outcome = "returned" THEN OpenContainers(done.dir)
                 ELSE NoRet,
         csvReads |-> 1,
         imgReads |-> SumSeq([i \in DOMAIN saves |-> saves[i].imgReads]),
         wrote |-> {ContainerOrder[i] :
                        i \in {j \in DOMAIN saves : saves[j].opened}},
         listKept |-> kept]

\* lines 135-141, after create_data_maps: the split, then the three saves
regenerate(dir, data_maps, sr, b) ==
    IF sr.raised # None
    THEN ReadReport(sr, sr.data_maps = data_maps,
                    [dir |-> dir, saves |-> <<>>])
    ELSE TheOne({ReadReport(sr, sr.data_maps = data_maps, done) :
                    done \in {save_partitions(
                                 dir, <<sr.train, sr.valid, sr.test>>, 1,
                                 <<>>, b)}})

\* read_data(data_dir, split_ratio), given the orders the two shuffles leave
\* and the two truncated products of the split
read_data(dir, split_ratio, shuffled1, shuffled2, n0, n1, b) ==
    IF data_exists(dir)
    THEN [dir |-> dir, outcome |-> "returned", ret |-> OpenContainers(dir),
          csvReads |-> 0, imgReads |-> 0, wrote |-> {}, listKept |-> TRUE]
    ELSE TheOne({regenerate(dir, create_data_maps(dir, TRUE, shuffled1),
                            sr, b) :
                    sr \in {split_data_set(
                               create_data_maps(dir, TRUE, shuffled1),
                               split_ratio, shuffled2, n0, n1)}})

\* line 116: the default split_ratio
DefaultRatio == <<700000, 200000, 100000>>

\* the ratios callers pass in SpecRead: the default, one that gives three
\* rows one partition each, and one that sums to 0.8
ReadRatios == {DefaultRatio, <<400000, 400000, 200000>>,
               <<500000, 200000, 100000>>}

\* The orders of the list create_data_maps returns.  When the assertion of
\* split_data_set passes, its own shuffle replaces that order, so one order
\* stands for all of them.
FirstShuffles(n, split_ratio) ==
    IF RatioAssertHolds(split_ratio) THEN {Mappings(n)}
    ELSE Shuffles(Mappings(n))

InitRead ==
    /\ build \in Builds
    /\ \E n \in 0..MaxRows : \E images \in ImagePatterns(n) :
          dirs = <<FreshDir(n, images)>>
    /\ call = IdleCall
    /\ sp = IdleSp /\ fl = IdleFl /\ sv = IdleSv /\ tm = IdleTm

\* every way a call of read_data(dir, split_ratio) can go: one per order of
\* the two shuffles and per value of the two truncated products
ReadDataOutcomes(dir, split_ratio, b) ==
    {read_data(dir, split_ratio, shuffled1, shuffled2, n0, n1, b) :
        shuffled1 \in FirstShuffles(dir.rows, split_ratio),
        shuffled2 \in Shuffles(Mappings(dir.rows)),
        n0 \in IntTimes(dir.rows, split_ratio[1]),
        n1 \in IntTimes(dir.rows, split_ratio[2])}

\* a caller calls read_data(dirs[1], split_ratio)
CallReadData ==
    /\ \E split_ratio \in ReadRatios :
       \E r \in ReadDataOutcomes(dirs[1], split_ratio, build) :
          /\ dirs' = <<r.dir>>
          /\ call' = [op |-> "read_data", split_ratio |-> split_ratio,
                      outcome |-> r.outcome, ret |-> r.ret,
                      csvReads |-> r.csvReads, imgReads |-> r.imgReads,
                      wrote |-> r.wrote, listKept |-> r.listKept,
                      prevOp |-> call.op, prevOutcome |-> call.outcome,
                      prevRet |-> call.ret]
    /\ UNCHANGED <<build, sp, fl, sv, tm>>

\* a caller calls split_data_set on the unshuffled mapping list of the
\* directory (create_data_maps with randomize=False, made beforehand)
CallSplitDirect ==
    /\ \E split_ratio \in ReadRatios :
       \E sr \in SplitOutcomes(create_data_maps(dirs[1], FALSE, <<>>),
                               split_ratio) :
          call' = [op |-> "split_data_set", split_ratio |-> split_ratio,
                   outcome |-> IF sr.raised # None THEN sr.raised
                               ELSE "returned",
                   ret |-> NoRet,
                   csvReads |-> 0, imgReads |-> 0, wrote |-> {},
                   listKept |->
                       sr.data_maps = create_data_maps(dirs[1], FALSE, <<>>),
                   prevOp |-> call.op, prevOutcome |-> call.outcome,
                   prevRet |-> call.ret]
    /\ UNCHANGED <<build, sp, fl, sv, dirs, tm>>

NextRead == CallReadData \/ CallSplitDirect

SpecRead == InitRead /\ [][NextRead]_vars

\* C3: a read_data call that directly follows a read_data call that returned
\* writes none of the three files, reads neither the CSV nor an image,
\* shuffles nothing, and returns containers equal to those the first call
\* returned, which are still what the files hold.
C3_SecondCallReuses ==
    (/\ call.op = "read_data" /\ call.prevOp = "read_data"
     /\ call.prevOutcome = "returned") =>
        /\ call.outcome = "returned"
        /\ call.wrote = {}
        /\ call.csvReads = 0 /\ call.imgReads = 0
        /\ call.ret = call.prevRet
        /\ OpenContainers(dirs[1]) = call.prevRet

\* a second call after a first that returned three filled containers
C3_Witness ==
    /\ call.op = "read_data" /\ call.prevOp = "read_data"
    /\ call.prevOutcome = "returned"
    /\ call.csvReads = 0
    /\ \A i \in 1..3 : call.prevRet[i].datasets /\ call.prevRet[i].images # <<>>

\* C4 as stated: when a call fails on the ratio assertion, in split_data_set
\* called directly or inside read_data, no CSV and no image has been read,
\* no container file has been created or written, and the list handed to
\* split_data_set has not been shuffled by it.
C4_AssertBeforeAnyIO ==
    (call.outcome = "AssertionError") =>
        /\ call.csvReads = 0
        /\ call.imgReads = 0
        /\ call.wrote = {}
        /\ call.listKept

\* C4 amended: at the assertion failure no image has been read, no container
\* file has been created or written and split_data_set has not shuffled its
\* list; split_data_set called directly has read nothing, while read_data has
\* already read the driving-log CSV; and read_data reaches the check only
\* when the three containers do not all exist (otherwise it returns them).
C4_AssertBeforeImagesAndContainers ==
    /\ (call.outcome = "AssertionError") =>
          /\ call.imgReads = 0
          /\ call.wrote = {}
          /\ call.listKept
          /\ call.csvReads = IF call.op = "read_data" THEN 1 ELSE 0
    /\ (/\ call.op = "read_data" /\ ~RatioAssertHolds(call.split_ratio)
        /\ call.outcome # "AssertionError") =>
          /\ call.outcome = "returned"
          /\ call.csvReads = 0

\* read_data failed on the assertion, over a CSV of two rows or more
C4_Witness ==
    /\ call.op = "read_data" /\ call.outcome = "AssertionError"
    /\ call.csvReads = 1
    /\ dirs[1].rows >= 2

\* C10 as stated: whenever train.h5, valid.h5 and test.h5 all exist, each
\* holds its datasets, images and labels have the same length in each, and
\* the rows of the three together are the rows of the CSV, each once.
C10_ExistingContainersComplete ==
    (call.op # None /\ data_exists(dirs[1])) =>
        LET c == OpenContainers(dirs[1])
        IN  /\ \A i \in 1..3 :
                  c[i].datasets /\ Len(c[i].images) = Len(c[i].labels)
            /\ Len(c[1].images) + Len(c[2].images) + Len(c[3].images)
                  = dirs[1].rows
            /\ IsPermutationOf(c[1].images \o c[2].images \o c[3].images,
                               [i \in 1..dirs[1].rows |-> i])

----------------------------------------------------------------------------
\* SteeringNeuralNetwork and train_model

\* a Keras model: the directories it has been fitted on, in order
NoModel == [built |-> FALSE, fits |-> <<>>]
\* create_network(input_shape, output_shape): freshly initialised weights
create_network == [built |-> TRUE, fits |-> <<>>]

\* line 8: def __init__(self, input_shape, output_shape)
InitParameters == {"input_shape", "output_shape"}

SteeringNeuralNetwork_taking_curr_model(input_shape, output_shape, kwargs) ==
    [raised |-> None,
     model |-> IF kwargs.curr_model.built THEN kwargs.curr_model
               ELSE create_network]
\* SteeringNeuralNetwork(input_shape, output_shape, **kwargs): a keyword the
\* constructor does not declare is a TypeError
SteeringNeuralNetwork(input_shape, output_shape, kwargs) ==
    IF DOMAIN kwargs \subseteq InitParameters
    THEN [raised |-> None, model |-> create_network]
    ELSE [raised |-> "TypeError", model |-> NoModel]

\* an entry of the driver's trace
Event(ev, dir, info) == [ev |-> ev, dir |-> dir, info |-> info]

Swallow(t, exc, at) ==
    [t EXCEPT !.pc = "for",
              !.trace = Append(@, Event("Raised", t.i, at))]
\* an exception raised in the loop body: train_model has no handler, so it
\* leaves the loop and the function
Propagate(t, exc, at) ==
    [t EXCEPT !.pc = "raised", !.exc = exc, !.raisedAt = at,
              !.trace = Append(@, Event("Raised", t.i, at))]

\* the directories a run of train_model may find: without containers, or as
\* an earlier call of read_data (on any build) left them
EarlierCalls(dir) ==
    UNION {{read_data(dir, split_ratio, Mappings(dir.rows),
                      Mappings(dir.rows), n0, n1, b).dir :
                n0 \in IntTimes(dir.rows, split_ratio[1]),
                n1 \in IntTimes(dir.rows, split_ratio[2]),
                b \in Builds} :
           split_ratio \in ReadRatios}
TrainDirKinds ==
    LET fresh == {FreshDir(n, [i \in 1..n |-> IF i \in B THEN "missing"
                                              ELSE "ok"]) :
                      n \in {0, MaxRows}, B \in {{}, {1}}}
    IN  fresh \cup UNION {EarlierCalls(d) : d \in fresh}

InitTrain ==
    /\ build \in Builds
    /\ \E k \in 0..MaxDirs : dirs \in [1..k -> TrainDirKinds]
    /\ tm = [pc |-> "for", i |-> 0, new_model |-> TRUE,
             snapshot |-> NoModel, data |-> NoRet, trace |-> <<>>,
             exc |-> None, raisedAt |-> None]
    /\ sp = IdleSp /\ fl = IdleFl /\ sv = IdleSv /\ call = IdleCall

\* line 153: the for-loop takes the next directory
TrainNextDir ==
    /\ tm.pc = "for" /\ tm.i < Len(dirs)
    /\ tm' = [tm EXCEPT !.i = @ + 1, !.pc = "read_data",
                        !.trace = Append(@, Event("LoadingData", tm.i + 1,
                                                  None))]
    /\ UNCHANGED <<build, sp, fl, sv, dirs, call>>

\* line 153: the list is exhausted and train_model returns
TrainReturn ==
    /\ tm.pc = "for" /\ tm.i >= Len(dirs)
    /\ tm' = [tm EXCEPT !.pc = "done"]
    /\ UNCHANGED <<build, sp, fl, sv, dirs, call>>

\* lines 156-162: read_data(data_dir) with the default ratio, then the
\* "images" and "labels" datasets of the three containers
TrainLoad ==
    /\ tm.pc = "read_data"
    /\ \E r \in ReadDataOutcomes(dirs[tm.i], DefaultRatio, build) :
              /\ dirs' = [dirs EXCEPT ![tm.i] = r.dir]
              /\ tm' = IF r.outcome # "returned"
                       THEN Propagate(tm, r.outcome, "LoadingData")
                       ELSE IF \E j \in 1..3 : ~r.ret[j].datasets
                       THEN Propagate(tm, "KeyError", "LoadingData")
                       ELSE [tm EXCEPT !.pc = "build", !.data = r.ret]
    /\ UNCHANGED <<build, sp, fl, sv, call>>

\* lines 165-186: the network is built (from the snapshot when new_model is
\* false), compiled, fitted, saved and evaluated, and new_model is cleared
TrainBody ==
    /\ tm.pc = "build"
    /\ LET train_images == tm.data[1].images
           resume == ~tm.new_model
           model == IF resume THEN tm.snapshot ELSE NoModel
           t0 == IF resume
                 THEN [tm EXCEPT !.trace = Append(@, Event("LoadModel", tm.i,
                                                           None))]
                 ELSE tm
           steering_network ==
               SteeringNeuralNetwork(tm.data[1].shape, 1,
                                     [curr_model |-> model])
           fitted == [steering_network.model EXCEPT
                         !.fits = Append(@, tm.i)]
       IN  tm' =
             IF train_images = <<>>
             THEN Propagate(tm, "IndexError", "Building")
             ELSE IF resume /\ ~tm.snapshot.built
             THEN Propagate(t0, "OSError", "Building")
             ELSE IF steering_network.raised # None
             THEN Propagate(t0, steering_network.raised, "Building")
             ELSE [t0 EXCEPT
                     !.trace = @ \o
                        <<Event("Fitting", tm.i, steering_network.model.fits),
                          Event("Saved", tm.i, None),
                          Event("Evaluating", tm.i, None)>>,
                     !.snapshot = fitted,
                     !.new_model = FALSE,
                     !.data = NoRet,
                     !.pc = "for"]
    /\ UNCHANGED <<build, sp, fl, sv, dirs, call>>

NextTrain == TrainNextDir \/ TrainReturn \/ TrainLoad \/ TrainBody

SpecTrain == InitTrain /\ [][NextTrain]_vars

\* the driver's steps on directory d, in the order they happened
StepNames == {"LoadingData", "Fitting", "Evaluating", "Saved"}
IsStepOf(e, d) == e.dir = d /\ e.ev \in StepNames
RECURSIVE StepsOf(_, _)
StepsOf(trace, d) ==
    IF trace = <<>> THEN <<>>
    ELSE IF IsStepOf(Head(trace), d)
    THEN <<Head(trace).ev>> \o StepsOf(Tail(trace), d)
    ELSE StepsOf(Tail(trace), d)

\* train_model is through with directory d, whose data it could load
Processed(d) ==
    \/ d < tm.i
    \/ d = tm.i /\ tm.pc \in {"for", "done"}
    \/ d = tm.i /\ tm.pc = "raised" /\ tm.raisedAt # "LoadingData"

\* C5 as stated: every directory train_model has processed went through
\* LoadingData, Fitting, Evaluating and Saved, in this order (the snapshot
\* is written after the evaluation, the next directory is loaded after
\* that).
C5_LoadFitEvaluateSave ==
    \A d \in 1..Len(dirs) :
        Processed(d) =>
            StepsOf(tm.trace, d)
                = <<"LoadingData", "Fitting", "Evaluating", "Saved">>

\* C6 as stated: unless loading the data of a directory fails, the driver
\* reaches the fit step of every directory of the list, and the fit on
\* directory d starts from the weights fitted on directories 1..d-1.
C6_SequentialFineTuning ==
    /\ tm.pc = "raised" => tm.raisedAt = "LoadingData"
    /\ tm.pc = "done" =>
          \A d \in 1..Len(dirs) :
              \E j \in DOMAIN tm.trace :
                  tm.trace[j].ev = "Fitting" /\ tm.trace[j].dir = d
    /\ \A j \in DOMAIN tm.trace :
          tm.trace[j].ev = "Fitting" =>
              tm.trace[j].info = [k \in 1..(tm.trace[j].dir - 1) |-> k]

\* C7: train_model never executes load_model, whatever the list of
\* directories.
C7_ResumeNeverExecuted ==
    \A j \in DOMAIN tm.trace : tm.trace[j].ev # "LoadModel"

\* train_model, called on two directories or more, has loaded the data of
\* its first directory, gone through lines 165-174 with new_model true, and
\* ended
C7_Witness ==
    /\ Len(dirs) >= 2
    /\ tm.pc \in {"done", "raised"}
    /\ tm.raisedAt # "LoadingData"
    /\ \E j \in DOMAIN tm.trace :
          tm.trace[j].ev = "LoadingData" /\ tm.trace[j].dir = 1

\* C8: a failure is the last thing that happens in a run: after it no
\* directory is loaded, fitted, evaluated or saved, and the driver is not
\* back in its loop nor returned.
C8_FailureIsTerminal ==
    \A j \in DOMAIN tm.trace :
        tm.trace[j].ev = "Raised" =>
            /\ j = Len(tm.trace)
            /\ tm.pc = "raised"
            /\ tm.i = tm.trace[j].dir

\* a failure on a directory that is not the last of the list
C8_Witness ==
    /\ tm.pc = "raised"
    /\ tm.i < Len(dirs)
    /\ tm.trace[Len(tm.trace)].ev = "Raised"

============================================================================
